---- MODULE Spec2Model ----
(***************************************************************************)
(* A model of the storage side of HyllaDB:                                 *)
(*   - PathMap       (src/hylladb/db/path_map.py)                          *)
(*   - PathsLibrary  (src/hylladb/db/paths_library/paths_library.py)       *)
(*   - HyllaDB       (src/hylladb/db/hylla_db.py)                          *)
(* and of the HyQL query models and their validators                       *)
(*   (src/hylladb/hyql/hyql.py, validators.py, enums.py).                  *)
(* Each component has its own specification (SpecPathMap,                  *)
(* SpecPathsLibrary, SpecHyllaDB, SpecHyQL); the variables of the other    *)
(* components stay at their initial values.                                *)
(***************************************************************************)
EXTENDS Integers, Sequences, FiniteSets, TLC

VARIABLES
    \* ---- PathMap ----
    _keys_set,      \* PathMap._keys_set : set[str]
    _path_maps,     \* PathMap._path_maps : dict[str, dict]
    pm_last,        \* the last PathMap call: operation, arguments, outcome
    pm_added,       \* history: key -> descriptor of the last successful add
                    \* of that key with no update/remove call on it since
    pm_trip,        \* history: progress of an add(k); remove(k); get(k) run
    \* ---- PathsLibrary ----
    _shelve,        \* content of the shelve file: key -> value
    _is_closed,     \* PathsLibrary._is_closed
    frames,         \* open transaction blocks, innermost last
    exc,            \* the exception in flight, <<>> when none
    pl_last,        \* the last PathsLibrary step and what it produced
    in_with,        \* the `with PathsLibrary(...)` block: "none", "open", "left"
    \* ---- HyllaDB ----
    _paths,         \* HyllaDB._paths : dict[str, PathType]
    paths_shelf,    \* the persisted 'paths' shelve table
    db_last,        \* the last HyllaDB call: operation, arguments, outcome
    \* ---- HyQL ----
    hq              \* one call of a HyQL validator or model constructor:
                    \* its arguments and, once it has run, its result

pmVars == <<_keys_set, _path_maps, pm_last, pm_added, pm_trip>>
plVars == <<_shelve, _is_closed, frames, exc, pl_last, in_with>>
dbVars == <<_paths, paths_shelf, db_last>>
hqVars == <<hq>>
vars == <<pmVars, plVars, dbVars, hqVars>>

(***************************************************************************)
(* Python values and dictionaries                                          *)
(***************************************************************************)

\* A Python value as far as PathMap.add looks at it: its type and content.
\* "missing" stands for a key the dictionary does not have (dict.get -> None).
Missing == [type |-> "missing", s |-> ""]
PyStr(x) == [type |-> "str", s |-> x]
PyInt(x) == [type |-> "int", s |-> x]

\* bool(v): None, "" and 0 are falsy.
Truthy(v) ==
    CASE v.type = "missing" -> FALSE
      [] v.type = "str" -> v.s # ""
      [] v.type = "int" -> v.s # "0"

\* isinstance(v, str)
IsStr(v) == v.type = "str"

\* d[k] = v on a dictionary held as a function
DictSet(d, k, v) == [x \in (DOMAIN d) \cup {k} |-> IF x = k THEN v ELSE d[x]]

\* d without key k
DictDel(d, k) == [x \in (DOMAIN d) \ {k} |-> d[x]]

\* d.update(e)
DictUpdate(d, e) ==
    [x \in (DOMAIN d) \cup (DOMAIN e) |-> IF x \in DOMAIN e THEN e[x] ELSE d[x]]

EmptyDict == [x \in {} |-> 0]

(***************************************************************************)
(* PathMap                                                                 *)
(***************************************************************************)

\* The path keys the callers use.
PathKeys == {"k1", "k2"}

\* The location descriptors the callers pass: two well-formed ones and one
\* of every malformed shape add() distinguishes.
Descriptors ==
    { [path |-> PyStr("p"), key_path |-> PyStr("kp")],
      [path |-> PyStr("q"), key_path |-> PyStr("kp")],
      [path |-> Missing, key_path |-> Missing],
      [path |-> Missing, key_path |-> PyStr("kp")],
      [path |-> PyStr(""), key_path |-> PyStr("kp")],
      [path |-> PyInt("0"), key_path |-> PyStr("kp")],
      [path |-> PyInt("1"), key_path |-> PyStr("kp")],
      [path |-> PyStr("p"), key_path |-> Missing],
      [path |-> PyStr("p"), key_path |-> PyStr("")],
      [path |-> PyStr("p"), key_path |-> PyInt("1")] }

\* A descriptor with both fields present and non-empty strings.
ValidDescriptor(v) ==
    /\ IsStr(v.path) /\ v.path.s # ""
    /\ IsStr(v.key_path) /\ v.key_path.s # ""

PMResult(ks, pm, out, ret) == [keys |-> ks, maps |-> pm, outcome |-> out, ret |-> ret]

\* PathMap.add without the duplicate-key check: an existing key is overwritten.
PathMap_add_NoDupCheck(ks, pm, k, v) ==
    IF ~Truthy(v.path) \/ ~Truthy(v.key_path)
        THEN PMResult(ks, pm, "ValueError", <<>>)
    ELSE IF ~IsStr(v.path) \/ ~IsStr(v.key_path)
        THEN PMResult(ks, pm, "TypeError", <<>>)
    ELSE PMResult(ks \cup {k}, DictSet(pm, k, v), "ok", <<>>)

\* PathMap.add without the store into _path_maps.
PathMap_add_NoStore(ks, pm, k, v) ==
    IF k \in ks THEN PMResult(ks, pm, "KeyError", <<>>)
    ELSE IF ~Truthy(v.path) \/ ~Truthy(v.key_path)
        THEN PMResult(ks, pm, "ValueError", <<>>)
    ELSE IF ~IsStr(v.path) \/ ~IsStr(v.key_path)
        THEN PMResult(ks, pm, "TypeError", <<>>)
    ELSE LET ks2 == ks \cup {k}
         IN  IF Cardinality(ks2) # Cardinality(DOMAIN pm)
             THEN PMResult(ks2, pm, "PathMapConsistencyError", <<>>)
             ELSE PMResult(ks2, pm, "ok", <<>>)

\* PathMap.add
PathMap_add(ks, pm, k, v) ==
    IF k \in ks THEN PMResult(ks, pm, "KeyError", <<>>)
    ELSE IF ~Truthy(v.path) \/ ~Truthy(v.key_path)
        THEN PMResult(ks, pm, "ValueError", <<>>)
    ELSE IF ~IsStr(v.path) \/ ~IsStr(v.key_path)
        THEN PMResult(ks, pm, "TypeError", <<>>)
    ELSE LET ks2 == ks \cup {k}
             pm2 == DictSet(pm, k, v)
         IN  IF Cardinality(ks2) # Cardinality(DOMAIN pm2)
             THEN PMResult(ks2, pm2, "PathMapConsistencyError", <<>>)
             ELSE PMResult(ks2, pm2, "ok", <<>>)

\* PathMap.get
PathMap_get(ks, pm, k) ==
    IF k \notin ks THEN PMResult(ks, pm, "KeyError", <<>>)
    ELSE IF k \notin DOMAIN pm THEN PMResult(ks, pm, "KeyError", <<>>)
    ELSE PMResult(ks, pm, "ok", <<pm[k]>>)

\* PathMap.update that replaces the whole dictionary by the one entry.
PathMap_update_ReplacesAll(ks, pm, k, v) ==
    IF k \notin ks THEN PMResult(ks, pm, "KeyError", <<>>)
    ELSE PMResult(ks, DictSet(EmptyDict, k, v), "ok", <<>>)

\* PathMap.update without the presence check: an absent key is inserted.
PathMap_update_Upsert(ks, pm, k, v) ==
    PMResult(ks, DictSet(pm, k, v), "ok", <<>>)

\* PathMap.update
PathMap_update(ks, pm, k, v) ==
    IF k \notin ks THEN PMResult(ks, pm, "KeyError", <<>>)
    ELSE PMResult(ks, DictSet(pm, k, v), "ok", <<>>)

\* PathMap.remove that pops the descriptor but keeps the key in _keys_set.
PathMap_remove_KeepsKey(ks, pm, k) ==
    IF k \notin ks THEN PMResult(ks, pm, "KeyError", <<>>)
    ELSE IF k \notin DOMAIN pm THEN PMResult(ks, pm, "KeyError", <<>>)
    ELSE LET pm2 == DictDel(pm, k)
         IN  IF Cardinality(ks) # Cardinality(DOMAIN pm2)
             THEN PMResult(ks, pm2, "PathMapConsistencyError", <<>>)
             ELSE PMResult(ks, pm2, "ok", <<>>)

\* PathMap.remove that pops the descriptor of another key when there is one.
PathMap_remove_PopsOther(ks, pm, k) ==
    IF k \notin ks THEN PMResult(ks, pm, "KeyError", <<>>)
    ELSE LET ks2 == ks \ {k}
             others == DOMAIN pm \ {k}
             j == IF others = {} THEN k ELSE CHOOSE x \in others : TRUE
         IN  IF j \notin DOMAIN pm THEN PMResult(ks2, pm, "KeyError", <<>>)
             ELSE LET pm2 == DictDel(pm, j)
                  IN  IF Cardinality(ks2) # Cardinality(DOMAIN pm2)
                      THEN PMResult(ks2, pm2, "PathMapConsistencyError", <<>>)
                      ELSE PMResult(ks2, pm2, "ok", <<>>)

\* PathMap.remove
PathMap_remove(ks, pm, k) ==
    IF k \notin ks THEN PMResult(ks, pm, "KeyError", <<>>)
    ELSE LET ks2 == ks \ {k}
         IN  IF k \notin DOMAIN pm THEN PMResult(ks2, pm, "KeyError", <<>>)
             ELSE LET pm2 == DictDel(pm, k)
                  IN  IF Cardinality(ks2) # Cardinality(DOMAIN pm2)
                      THEN PMResult(ks2, pm2, "PathMapConsistencyError", <<>>)
                      ELSE PMResult(ks2, pm2, "ok", <<>>)

PMCall(op, k, arg, r) ==
    [op |-> op, key |-> k, arg |-> arg, outcome |-> r.outcome, ret |-> r.ret]

NoTrip == [phase |-> 0, key |-> "", keys |-> {}, maps |-> EmptyDict]

\* The add(k); remove(k); get(k) run in progress after a call `op` on `k`
\* with result r: it starts at a successful add and advances only through
\* consecutive calls on the same key.
TripAfter(op, k, r) ==
    IF op = "add" /\ r.outcome = "ok"
        THEN [phase |-> 1, key |-> k, keys |-> _keys_set, maps |-> _path_maps]
    ELSE IF op = "remove" /\ pm_trip.phase = 1 /\ pm_trip.key = k
        THEN [pm_trip EXCEPT !.phase = 2]
    ELSE IF op = "get" /\ pm_trip.phase = 2 /\ pm_trip.key = k
        THEN [pm_trip EXCEPT !.phase = 3]
    ELSE NoTrip

\* The descriptors added and not touched by update/remove since.
AddedAfter(op, k, arg, r) ==
    IF op = "add" /\ r.outcome = "ok" THEN DictSet(pm_added, k, arg[1])
    ELSE IF op \in {"update", "remove"} THEN DictDel(pm_added, k)
    ELSE pm_added

PMApply(op, k, arg, r) ==
    /\ _keys_set' = r.keys
    /\ _path_maps' = r.maps
    /\ pm_last' = PMCall(op, k, arg, r)
    /\ pm_added' = AddedAfter(op, k, arg, r)
    /\ pm_trip' = TripAfter(op, k, r)
    /\ UNCHANGED <<plVars, dbVars, hqVars>>

PMAdd ==
    \E k \in PathKeys, v \in Descriptors :
        PMApply("add", k, <<v>>, PathMap_add(_keys_set, _path_maps, k, v))

PMGet ==
    \E k \in PathKeys :
        PMApply("get", k, <<>>, PathMap_get(_keys_set, _path_maps, k))

PMUpdate ==
    \E k \in PathKeys, v \in Descriptors :
        PMApply("update", k, <<v>>, PathMap_update(_keys_set, _path_maps, k, v))

PMRemove ==
    \E k \in PathKeys :
        PMApply("remove", k, <<>>, PathMap_remove(_keys_set, _path_maps, k))

NoCall == [op |-> "none", key |-> "", arg |-> <<>>, outcome |-> "ok", ret |-> <<>>]

PMInit ==
    /\ _keys_set = {}
    /\ _path_maps = EmptyDict
    /\ pm_last = NoCall
    /\ pm_added = EmptyDict
    /\ pm_trip = NoTrip

(***************************************************************************)
(* PathMap: properties                                                     *)
(***************************************************************************)

\* C1: after a successful add(k, v), and as long as no update(k) or
\* remove(k) call was made since (calls on other keys may come in between),
\* get(k) succeeds and returns exactly v.
C1_AddThenGet ==
    /\ \A k \in DOMAIN pm_added :
        LET r == PathMap_get(_keys_set, _path_maps, k)
        IN  r.outcome = "ok" /\ r.ret = <<pm_added[k]>>
    /\ (pm_last.op = "get" /\ pm_last.key \in DOMAIN pm_added) =>
        (pm_last.outcome = "ok" /\ pm_last.ret = <<pm_added[pm_last.key]>>)

\* C1 witness: a get(k) that returned the descriptor added earlier, after a
\* call on another key changed the map in between.
C1_Witness ==
    /\ pm_last.op = "get"
    /\ pm_last.key \in DOMAIN pm_added
    /\ pm_last.ret = <<pm_added[pm_last.key]>>
    /\ \E k2 \in _keys_set : k2 # pm_last.key /\ k2 \notin DOMAIN pm_added

\* C2: an add on a key that is present fails whatever the descriptor, and
\* every failing add leaves the key set and all descriptors as they were.
C2_AddNeverPartiallyMutates ==
    [][ (pm_last'.op = "add") =>
          /\ (pm_last'.key \in _keys_set => pm_last'.outcome = "KeyError")
          /\ (pm_last'.outcome # "ok" =>
                (_keys_set' = _keys_set /\ _path_maps' = _path_maps)) ]_vars

\* C2 witness: a failed add of a key that is present, with a descriptor
\* different from the stored one.
C2_Witness ==
    /\ pm_last.op = "add"
    /\ pm_last.outcome = "KeyError"
    /\ pm_last.key \in _keys_set
    /\ _path_maps[pm_last.key] # pm_last.arg[1]

\* C3: add(k, v) on an absent key, then remove(k), then get(k): the remove
\* succeeds, the get fails with the not-found error, and the map is back
\* in the state it had before the add.
C3_AddRemoveGet ==
    /\ pm_trip.phase = 2 =>
        /\ pm_last.outcome = "ok"
        /\ _keys_set = pm_trip.keys /\ _path_maps = pm_trip.maps
    /\ pm_trip.phase = 3 =>
        /\ pm_last.outcome = "KeyError"
        /\ _keys_set = pm_trip.keys /\ _path_maps = pm_trip.maps

\* C3 witness: the get at the end of such a run, on a map that is not empty.
C3_Witness ==
    /\ pm_trip.phase = 3
    /\ pm_last.op = "get" /\ pm_last.key = pm_trip.key
    /\ _keys_set # {}

\* C4: the number of keys equals the number of descriptors in every state.
C4_CountInvariant == Cardinality(_keys_set) = Cardinality(DOMAIN _path_maps)

\* C4 witness: a state after a successful remove that still holds a key.
C4_Witness ==
    /\ pm_last.op = "remove" /\ pm_last.outcome = "ok"
    /\ Cardinality(_keys_set) = 1

\* C5: get, update and remove on an absent key fail with the not-found
\* error and leave the key set and all descriptors unchanged.
C5_AbsentKeyFails ==
    [][ (pm_last'.op \in {"get", "update", "remove"} /\ pm_last'.key \notin _keys_set) =>
          /\ pm_last'.outcome = "KeyError"
          /\ _keys_set' = _keys_set /\ _path_maps' = _path_maps ]_vars

\* C5 witness: a failed update of an absent key while another key is stored.
C5_Witness ==
    /\ pm_last.op = "update" /\ pm_last.outcome = "KeyError"
    /\ pm_last.key \notin _keys_set
    /\ _keys_set # {}

\* C6: every stored descriptor has a 'path' and a 'key_path' that are
\* non-empty strings.  (update stores its argument unchecked.)
C6_DescriptorInvariant ==
    \A k \in DOMAIN _path_maps : ValidDescriptor(_path_maps[k])

\* C29: in every state the key set is the set of keys of the descriptor
\* map, not only a set of the same size, and get(k) returns normally
\* exactly when k has a stored descriptor.
C29_KeySetAgreement ==
    /\ [](_keys_set = DOMAIN _path_maps)
    /\ [][ (pm_last'.op = "get") =>
              /\ pm_last'.outcome = "ok" <=> pm_last'.key \in DOMAIN _path_maps
              /\ pm_last'.outcome = "ok" => pm_last'.ret = <<_path_maps[pm_last'.key]>>
          ]_vars

\* C29 witness: a get that returned the descriptor of the one stored key
\* while the other key has none.
C29_Witness ==
    /\ pm_last.op = "get" /\ pm_last.outcome = "ok"
    /\ _keys_set = {pm_last.key} /\ DOMAIN _path_maps = {pm_last.key}
    /\ pm_last.ret = <<_path_maps[pm_last.key]>>

(***************************************************************************)
(* PathsLibrary                                                            *)
(***************************************************************************)

\* Deepest nesting of transaction blocks explored.
MaxDepth == 2

\* The path keys and the values (SchemaModel instances) the callers use.
LibKeys == {"a", "b"}
LibValues == {"v1", "v2"}

\* An exception: its class and the place that raised it.
Error(type, origin) == [type |-> type, origin |-> origin]

\* RuntimeError of _check_closed
ClosedLibraryError == Error("RuntimeError", "_check_closed")

\* ValueError('invalid operation on closed shelf') of a closed shelve.Shelf
ClosedShelfError == Error("ValueError", "shelve")

\* Exceptions raised by the code of a block itself, and by sys.exit.
UserErrors == {Error("Exception", "block"), Error("KeyboardInterrupt", "block")}
SystemExit == Error("SystemExit", "_signal_handler")

\* `except Exception` catches e
IsException(e) == e.type \notin {"KeyboardInterrupt", "SystemExit", "GeneratorExit"}

PLResult(sh, raised) == [shelve |-> sh, raised |-> raised]

\* PathsLibrary._check_closed that never raises.
PathsLibrary__check_closed_Never(closed) == <<>>

\* PathsLibrary._check_closed: the exception it raises, if any
PathsLibrary__check_closed(closed) ==
    IF closed THEN <<ClosedLibraryError>> ELSE <<>>

\* PathsLibrary.create without the test for an existing key.
PathsLibrary_create_Overwrites(sh, closed, k, v) ==
    IF PathsLibrary__check_closed(closed) # <<>>
        THEN PLResult(sh, PathsLibrary__check_closed(closed))
    ELSE PLResult(DictSet(sh, k, v), <<>>)

\* PathsLibrary.create
PathsLibrary_create(sh, closed, k, v) ==
    IF PathsLibrary__check_closed(closed) # <<>>
        THEN PLResult(sh, PathsLibrary__check_closed(closed))
    ELSE IF k \in DOMAIN sh THEN PLResult(sh, <<Error("ValueError", "create")>>)
    ELSE PLResult(DictSet(sh, k, v), <<>>)

\* PathsLibrary.read: the value returned ("None" for an absent key)
PathsLibrary_read(sh, closed, k) ==
    IF PathsLibrary__check_closed(closed) # <<>>
        THEN [ret |-> <<>>, raised |-> PathsLibrary__check_closed(closed)]
    ELSE [ret |-> <<IF k \in DOMAIN sh THEN sh[k] ELSE "None">>, raised |-> <<>>]

\* PathsLibrary.update
PathsLibrary_update(sh, closed, k, v) ==
    IF PathsLibrary__check_closed(closed) # <<>>
        THEN PLResult(sh, PathsLibrary__check_closed(closed))
    ELSE IF k \notin DOMAIN sh THEN PLResult(sh, <<Error("ValueError", "update")>>)
    ELSE PLResult(DictSet(sh, k, v), <<>>)

\* PathsLibrary.delete
PathsLibrary_delete(sh, closed, k) ==
    IF PathsLibrary__check_closed(closed) # <<>>
        THEN PLResult(sh, PathsLibrary__check_closed(closed))
    ELSE IF k \notin DOMAIN sh THEN PLResult(sh, <<Error("ValueError", "delete")>>)
    ELSE PLResult(DictDel(sh, k), <<>>)

\* PathsLibrary.transaction, up to the yield: snapshot = dict(self._shelve).
\* Reading a closed shelf raises.
TransactionSnapshot(sh, closed) ==
    IF closed THEN [snapshot |-> EmptyDict, raised |-> <<ClosedShelfError>>]
    ELSE [snapshot |-> sh, raised |-> <<>>]

\* PathsLibrary.transaction, the handler of an exception e thrown out of the
\* block: `except Exception` does not take the exit exceptions; clear() on a
\* closed shelf raises before anything is restored; otherwise the shelf is
\* cleared and refilled from the snapshot and e is raised again.
TransactionExcept(sh, closed, snapshot, e) ==
    IF ~IsException(e) THEN PLResult(sh, <<e>>)
    ELSE IF closed THEN PLResult(sh, <<ClosedShelfError>>)
    ELSE PLResult(DictUpdate(EmptyDict, snapshot), <<e>>)

PLCall(op, k, raised) ==
    [op |-> op, key |-> k, raised |-> raised,
     original |-> <<>>, snapshot |-> EmptyDict, plain |-> TRUE]

\* A step of the code in a block that is a call of a library method: the
\* exception it raises, if any, is in flight afterwards.
PLApply(op, k, r, fr) ==
    /\ exc = <<>>
    /\ _shelve' = r.shelve
    /\ exc' = r.raised
    /\ frames' = fr
    /\ pl_last' = PLCall(op, k, r.raised)
    /\ UNCHANGED <<_is_closed, in_with, pmVars, dbVars, hqVars>>

\* The open blocks after a call that is not create/update/delete/read.
NotPlain(fr) == [i \in DOMAIN fr |-> [fr[i] EXCEPT !.plain = FALSE]]

PLCreate ==
    \E k \in LibKeys, v \in LibValues :
        PLApply("create", k, PathsLibrary_create(_shelve, _is_closed, k, v), frames)

PLRead ==
    \E k \in LibKeys :
        PLApply("read", k,
                PLResult(_shelve, PathsLibrary_read(_shelve, _is_closed, k).raised),
                frames)

PLUpdate ==
    \E k \in LibKeys, v \in LibValues :
        PLApply("update", k, PathsLibrary_update(_shelve, _is_closed, k, v), frames)

PLDelete ==
    \E k \in LibKeys :
        PLApply("delete", k, PathsLibrary_delete(_shelve, _is_closed, k), frames)

\* PathsLibrary.close: the shelf is synced and closed once.
PLClose ==
    /\ exc = <<>>
    /\ _is_closed' = TRUE
    /\ frames' = NotPlain(frames)
    /\ pl_last' = PLCall("close", "", <<>>)
    /\ UNCHANGED <<_shelve, exc, in_with, pmVars, dbVars, hqVars>>

\* PathsLibrary._signal_handler: close, then sys.exit(0).
PLSignalHandler ==
    /\ exc = <<>>
    /\ _is_closed' = TRUE
    /\ frames' = NotPlain(frames)
    /\ exc' = <<SystemExit>>
    /\ pl_last' = PLCall("_signal_handler", "", <<SystemExit>>)
    /\ UNCHANGED <<_shelve, in_with, pmVars, dbVars, hqVars>>

\* The code of a block raises an exception of its own.
PLRaise ==
    \E e \in UserErrors :
        /\ exc = <<>>
        /\ exc' = <<e>>
        /\ pl_last' = PLCall("raise", "", <<e>>)
        /\ UNCHANGED <<_shelve, _is_closed, frames, in_with, pmVars, dbVars, hqVars>>

\* A try/except around the failing statement (in the enclosing block, or in
\* the caller when no block is open) takes the exception in flight.
PLCatch ==
    /\ exc # <<>>
    /\ exc' = <<>>
    /\ pl_last' = PLCall("except", "", exc)
    /\ UNCHANGED <<_shelve, _is_closed, frames, in_with, pmVars, dbVars, hqVars>>

\* with library.transaction(): -- the snapshot is taken and the block entered.
PLTransactionEnter ==
    /\ exc = <<>>
    /\ Len(frames) < MaxDepth
    /\ LET t == TransactionSnapshot(_shelve, _is_closed)
       IN  /\ exc' = t.raised
           /\ frames' = IF t.raised = <<>>
                        THEN Append(NotPlain(frames),
                                    [snapshot |-> t.snapshot, plain |-> TRUE])
                        ELSE NotPlain(frames)
           /\ pl_last' = PLCall("transaction_enter", "", t.raised)
    /\ UNCHANGED <<_shelve, _is_closed, in_with, pmVars, dbVars, hqVars>>

\* The innermost block ends without an exception: nothing is undone.
PLTransactionExit ==
    /\ exc = <<>>
    /\ frames # <<>>
    /\ frames' = SubSeq(frames, 1, Len(frames) - 1)
    /\ pl_last' = [PLCall("transaction", "", <<>>) EXCEPT
                      !.snapshot = frames[Len(frames)].snapshot,
                      !.plain = frames[Len(frames)].plain]
    /\ UNCHANGED <<_shelve, _is_closed, exc, in_with, pmVars, dbVars, hqVars>>

\* The innermost block ends by an exception: the handler of transaction()
\* runs and what it raises goes on to the code around the block.
PLTransactionExcept ==
    /\ exc # <<>>
    /\ frames # <<>>
    /\ LET top == frames[Len(frames)]
           r == TransactionExcept(_shelve, _is_closed, top.snapshot, exc[1])
       IN  /\ _shelve' = r.shelve
           /\ exc' = r.raised
           /\ pl_last' = [PLCall("transaction", "", r.raised) EXCEPT
                             !.original = exc,
                             !.snapshot = top.snapshot,
                             !.plain = top.plain]
    /\ frames' = SubSeq(frames, 1, Len(frames) - 1)
    /\ UNCHANGED <<_is_closed, in_with, pmVars, dbVars, hqVars>>

\* PathsLibrary.__exit__ that closes only when no exception is in flight.
PathsLibrary___exit___OnlyOnSuccess(closed, e) ==
    [closed |-> IF e = <<>> THEN TRUE ELSE closed, raised |-> e]

\* PathsLibrary.__exit__: close(), then False is returned, so that the
\* exception in flight (if any) goes on to the caller.
PathsLibrary___exit__(closed, e) == [closed |-> TRUE, raised |-> e]

\* with library: -- __enter__ returns the library; the with block is the
\* outermost block.
PLEnter ==
    /\ exc = <<>>
    /\ frames = <<>>
    /\ in_with # "open"
    /\ in_with' = "open"
    /\ pl_last' = PLCall("__enter__", "", <<>>)
    /\ UNCHANGED <<_shelve, _is_closed, frames, exc, pmVars, dbVars, hqVars>>

\* The with block is left, by its end or by the exception in flight.
PLExit ==
    /\ in_with = "open"
    /\ frames = <<>>
    /\ LET r == PathsLibrary___exit__(_is_closed, exc)
       IN  /\ _is_closed' = r.closed
           /\ exc' = r.raised
           /\ pl_last' = [PLCall("__exit__", "", r.raised) EXCEPT !.original = exc]
    /\ in_with' = "left"
    /\ UNCHANGED <<_shelve, frames, pmVars, dbVars, hqVars>>

PLInit ==
    /\ _shelve \in {EmptyDict, [k \in {"a"} |-> "v1"]}
    /\ _is_closed = FALSE
    /\ frames = <<>>
    /\ exc = <<>>
    /\ pl_last = PLCall("none", "", <<>>)
    /\ in_with = "none"

(***************************************************************************)
(* PathsLibrary: properties                                                *)
(***************************************************************************)

\* C7: a transaction block in which only create/update/delete (and read)
\* were called and that ends by raising leaves the store with exactly the
\* keys and values it had when the transaction started.
C7_TransactionAllOrNothing ==
    (pl_last.op = "transaction" /\ pl_last.original # <<>> /\ pl_last.plain)
        => _shelve = pl_last.snapshot

\* C8: the error the caller of a failed transaction receives is the error
\* raised inside the block, never one produced by the rollback.
C8_OriginalErrorReraised ==
    (pl_last.op = "transaction" /\ pl_last.original # <<>>)
        => pl_last.raised = pl_last.original

\* C24: whenever the `with PathsLibrary(...)` block is left, with or
\* without an exception in flight, the library is closed afterwards (and
\* stays closed) and the exception in flight is still in flight.
C24_ClosedOnEveryExit ==
    /\ [](in_with = "left" => _is_closed)
    /\ [][ (pl_last'.op = "__exit__") => (_is_closed' /\ exc' = exc) ]_vars

\* C24 witness: the with block was left by an exception raised in it, with
\* data in the store; the library is closed and the exception in flight.
C24_Witness ==
    /\ pl_last.op = "__exit__" /\ in_with = "left"
    /\ exc = <<Error("Exception", "block")>>
    /\ _is_closed /\ DOMAIN _shelve # {}

\* C25: create(k, v) fails when k is stored, update(k, v) and delete(k)
\* fail when k is not stored, and a failing call leaves the store as it
\* was; read(k) on an open library returns the stored value, or None when
\* k is not stored, and never changes the store; a successful create,
\* update or delete changes key k only (k is stored after create and
\* update, and not stored after delete).
C25_KeyPreconditions ==
    [][ LET op == pl_last'.op
            k == pl_last'.key
            failed == pl_last'.raised # <<>>
        IN  (op \in {"create", "read", "update", "delete"}) =>
              /\ (op = "create" /\ k \in DOMAIN _shelve) => failed
              /\ (op \in {"update", "delete"} /\ k \notin DOMAIN _shelve) => failed
              /\ failed => _shelve' = _shelve
              /\ op = "read" =>
                  /\ _shelve' = _shelve
                  /\ ~_is_closed =>
                      /\ ~failed
                      /\ PathsLibrary_read(_shelve, _is_closed, k).ret =
                            <<IF k \in DOMAIN _shelve THEN _shelve[k] ELSE "None">>
              /\ (op \in {"create", "update", "delete"} /\ ~failed) =>
                  /\ \A k2 \in (DOMAIN _shelve \cup DOMAIN _shelve') \ {k} :
                        /\ k2 \in DOMAIN _shelve /\ k2 \in DOMAIN _shelve'
                        /\ _shelve'[k2] = _shelve[k2]
                  /\ op = "create" => k \notin DOMAIN _shelve /\ k \in DOMAIN _shelve'
                  /\ op = "update" => k \in DOMAIN _shelve /\ k \in DOMAIN _shelve'
                  /\ op = "delete" => k \in DOMAIN _shelve /\ k \notin DOMAIN _shelve' ]_vars

\* C25 witness: a create of a stored key has failed, with another value
\* than the stored one, while a second key is stored.
C25_Witness ==
    /\ pl_last.op = "create" /\ pl_last.raised = <<Error("ValueError", "create")>>
    /\ DOMAIN _shelve = LibKeys
    /\ _shelve[pl_last.key] = "v2"

\* C26: once the library is closed it stays closed; every create, read,
\* update and delete on a closed library raises the error of _check_closed
\* and leaves the store as it was; close() on a closed library changes
\* nothing.
C26_ClosedIsAbsorbing ==
    /\ [][ _is_closed => _is_closed' ]_vars
    /\ [][ (_is_closed /\ pl_last'.op \in {"create", "read", "update", "delete"}) =>
              /\ pl_last'.raised = <<ClosedLibraryError>>
              /\ exc' = <<ClosedLibraryError>>
              /\ _shelve' = _shelve ]_vars
    /\ [][ (_is_closed /\ pl_last'.op = "close") =>
              /\ _is_closed' /\ _shelve' = _shelve /\ exc' = exc ]_vars

\* C26 witness: an update of a stored key on a closed library has raised
\* the closed-library error.
C26_Witness ==
    /\ _is_closed
    /\ pl_last.op = "update" /\ pl_last.raised = <<ClosedLibraryError>>
    /\ pl_last.key \in DOMAIN _shelve

\* C30: nested transactions roll back to their own snapshot: a block (inner
\* or outer) that ends by an exception leaves the store with the content it
\* had when that block started, so that after an inner failure caught in
\* the outer block the outer block's earlier effects are kept, and after a
\* failure that also leaves the outer block the store is as at the outer
\* start; a block that ends without an exception keeps all its effects.
C30_NestedRollback ==
    [][ (pl_last'.op = "transaction") =>
          IF pl_last'.original # <<>>
          THEN _shelve' = frames[Len(frames)].snapshot
          ELSE _shelve' = _shelve ]_vars

(***************************************************************************)
(* Path grammar (hyql_utilities.py)                                        *)
(***************************************************************************)

\* A string is the sequence of its characters.
Upper == {"A", "B", "C", "D", "E", "F", "G", "H", "I", "J", "K", "L", "M",
          "N", "O", "P", "Q", "R", "S", "T", "U", "V", "W", "X", "Y", "Z"}
Lower == {"a", "b", "c", "d", "e", "f", "g", "h", "i", "j", "k", "l", "m",
          "n", "o", "p", "q", "r", "s", "t", "u", "v", "w", "x", "y", "z"}
Digit == {"0", "1", "2", "3", "4", "5", "6", "7", "8", "9"}

\* [A-Za-z0-9]
AlNum == Upper \cup Lower \cup Digit

\* The automaton of ^[A-Za-z0-9]+(?:[seps][A-Za-z0-9]+)*$ run over s from
\* position i: q = 0 at the start, 1 inside a segment, 2 after a separator.
RECURSIVE RunPattern(_, _, _, _)
RunPattern(s, i, q, seps) ==
    IF i > Len(s) THEN q = 1
    ELSE IF s[i] \in AlNum THEN RunPattern(s, i + 1, 1, seps)
    ELSE IF s[i] \in seps /\ q = 1 THEN RunPattern(s, i + 1, 2, seps)
    ELSE FALSE

\* path_pattern
MatchesPathPattern(s) == RunPattern(s, 1, 0, {".", "_"})

\* name_pattern
MatchesNamePattern(s) == RunPattern(s, 1, 0, {"_"})

(***************************************************************************)
(* HyllaDB                                                                 *)
(***************************************************************************)

\* PathType
SECTION == "section"
SHELF == "shelf"

\* The `path` and `name` values the callers use; the last of each does not
\* match its pattern.
QueryPaths == {<<"a">>, <<"a", ".", "b">>, <<"a", ".">>}
QueryNames == {<<"b">>, <<"c">>, <<"b", ".", "c">>}

\* The path keys given to _add_path and _remove_path directly.
DirectPaths == {<<"a">>, <<"a", ".", "b">>}

\* The arguments given to build_section and build_shelf: instances of the
\* query models (valid by construction), dictionaries with any field
\* values, and objects of another type.
\* BuildSection without the pattern of `name`.
BuildSectionModel_NoNameCheck(h) == MatchesPathPattern(h.path) /\ h.has_schema

BuildSectionModel(h) ==
    MatchesPathPattern(h.path) /\ MatchesNamePattern(h.name) /\ h.has_schema

BuildQueries(cls) ==
    { h \in [cls : {cls}, path : QueryPaths, name : QueryNames, has_schema : {TRUE}] :
        BuildSectionModel(h) }
DictQueries == [cls : {"dict"}, path : QueryPaths, name : QueryNames, has_schema : BOOLEAN]
OtherQueries == {[cls |-> "str", path |-> <<>>, name |-> <<>>, has_schema |-> FALSE]}

DBResult(paths, shelf, out) == [paths |-> paths, shelf |-> shelf, outcome |-> out]

\* HyllaDB._add_path without the comparison of the two counts.
HyllaDB__add_path_NoCountCheck(paths, shelf, path_dict) ==
    DBResult(DictUpdate(paths, path_dict), DictUpdate(shelf, path_dict), "ok")

\* HyllaDB._add_path
HyllaDB__add_path(paths, shelf, path_dict) ==
    LET paths2 == DictUpdate(paths, path_dict)
        shelf2 == DictUpdate(shelf, path_dict)
    IN  IF Cardinality(DOMAIN paths2) # Cardinality(DOMAIN shelf2)
        THEN DBResult(paths2, shelf2, "ValueError")
        ELSE DBResult(paths2, shelf2, "ok")

\* HyllaDB._remove_path: only the persisted table is touched.
HyllaDB__remove_path(paths, shelf, path) ==
    IF path \notin DOMAIN shelf THEN DBResult(paths, shelf, "KeyError")
    ELSE DBResult(paths, DictDel(shelf, path), "ok")

\* HyllaDB.build_section
HyllaDB_build_section(paths, shelf, hyql) ==
    IF hyql.cls # "BuildSection" /\ hyql.cls # "dict"
        THEN DBResult(paths, shelf, "ValueError")
    ELSE IF hyql.cls = "dict" /\ ~BuildSectionModel(hyql)
        THEN DBResult(paths, shelf, "ValidationError")
    ELSE LET section_path_str == hyql.path \o <<".">> \o hyql.name
         IN  IF section_path_str \in DOMAIN paths
             THEN DBResult(paths, shelf, "ValueError")
             ELSE HyllaDB__add_path(paths, shelf,
                                    [x \in {section_path_str} |-> SECTION])

\* HyllaDB.build_shelf without the test for an already registered path.
HyllaDB_build_shelf_NoExistsCheck(paths, shelf, hyql) ==
    IF hyql.cls # "BuildShelf" THEN DBResult(paths, shelf, "AttributeError")
    ELSE HyllaDB__add_path(paths, shelf, [x \in {hyql.path} |-> SHELF])

\* HyllaDB.build_shelf
HyllaDB_build_shelf(paths, shelf, hyql) ==
    IF hyql.cls # "BuildShelf" THEN DBResult(paths, shelf, "AttributeError")
    ELSE IF hyql.path \in DOMAIN paths THEN DBResult(paths, shelf, "ValueError")
    ELSE HyllaDB__add_path(paths, shelf, [x \in {hyql.path} |-> SHELF])

\* HyllaDB._load_paths that starts every session with an empty dictionary.
HyllaDB__load_paths_AlwaysEmpty(shelf) == EmptyDict

\* HyllaDB._load_paths
HyllaDB__load_paths(shelf) ==
    IF Cardinality(DOMAIN shelf) = 0 THEN EmptyDict ELSE shelf

DBCall(op, path, name, r) ==
    [op |-> op, path |-> path, name |-> name, outcome |-> r.outcome]

DBApply(op, path, name, r) ==
    /\ _paths' = r.paths
    /\ paths_shelf' = r.shelf
    /\ db_last' = DBCall(op, path, name, r)
    /\ UNCHANGED <<pmVars, plVars, hqVars>>

DBBuildSection ==
    \E hyql \in BuildQueries("BuildSection") \cup DictQueries \cup OtherQueries :
        DBApply("build_section", hyql.path, hyql.name,
                HyllaDB_build_section(_paths, paths_shelf, hyql))

DBBuildShelf ==
    \E hyql \in BuildQueries("BuildShelf") \cup DictQueries :
        DBApply("build_shelf", hyql.path, hyql.name,
                HyllaDB_build_shelf(_paths, paths_shelf, hyql))

DBAddPath ==
    \E p \in DirectPaths, t \in {SECTION, SHELF} :
        DBApply("_add_path", p, <<>>,
                HyllaDB__add_path(_paths, paths_shelf, [x \in {p} |-> t]))

DBRemovePath ==
    \E p \in DirectPaths :
        DBApply("_remove_path", p, <<>>,
                HyllaDB__remove_path(_paths, paths_shelf, p))

\* HyllaDB.__init__ on the same library directory
DBOpen ==
    DBApply("__init__", <<>>, <<>>,
            DBResult(HyllaDB__load_paths(paths_shelf), paths_shelf, "ok"))

\* A new or an existing library, just opened.
DBInit ==
    /\ paths_shelf \in {EmptyDict, [x \in {<<"a">>} |-> SECTION]}
    /\ _paths = HyllaDB__load_paths(paths_shelf)
    /\ db_last = [op |-> "__init__", path |-> <<>>, name |-> <<>>, outcome |-> "ok"]

(***************************************************************************)
(* HyllaDB: properties                                                     *)
(***************************************************************************)

\* C9: after every call, the path keys held in memory are the keys of the
\* persisted 'paths' table, with the same kind for each key.
C9_NamespaceInSync == _paths = paths_shelf

\* C10: build_section and build_shelf fail, and leave the namespace as it
\* was, when the parent path is not registered.
C10_ParentMustExist ==
    [][ (/\ db_last'.op \in {"build_section", "build_shelf"}
         /\ db_last'.path \notin DOMAIN _paths) =>
            (/\ db_last'.outcome # "ok"
             /\ _paths' = _paths /\ paths_shelf' = paths_shelf) ]_vars

\* C11: build_section and build_shelf with parent path p and name n fail
\* and change neither the in-memory nor the persisted namespace when p.n is
\* registered; when p.n is absent (and the argument is a well-formed query)
\* they succeed and p.n is registered afterwards, as a Section by
\* build_section and as a Shelf by build_shelf.
C11_BuildRegistersNode ==
    [][ (db_last'.op \in {"build_section", "build_shelf"}) =>
          LET node == db_last'.path \o <<".">> \o db_last'.name
              kind == IF db_last'.op = "build_section" THEN SECTION ELSE SHELF
          IN  /\ node \in DOMAIN _paths =>
                  /\ db_last'.outcome # "ok"
                  /\ _paths' = _paths /\ paths_shelf' = paths_shelf
              /\ (/\ node \notin DOMAIN _paths
                  /\ db_last'.outcome \notin {"ValidationError", "AttributeError"}
                  /\ db_last'.path # <<>>) =>
                  /\ db_last'.outcome = "ok"
                  /\ node \in DOMAIN _paths' /\ _paths'[node] = kind
                  /\ node \in DOMAIN paths_shelf' /\ paths_shelf'[node] = kind ]_vars

\* C12: every registered path has one kind, Section or Shelf, and a
\* build_section or build_shelf call leaves every path that was registered
\* before it registered with the kind it had.
C12_KindIsStable ==
    /\ [](\A k \in DOMAIN _paths : _paths[k] \in {SECTION, SHELF})
    /\ [][ (db_last'.op \in {"build_section", "build_shelf"}) =>
             \A k \in DOMAIN _paths :
                 k \in DOMAIN _paths' /\ _paths'[k] = _paths[k] ]_vars

\* C12 witness: a successful build_shelf in a namespace that already held a
\* section, which is still a section.
C12_Witness ==
    /\ db_last.op = "build_shelf" /\ db_last.outcome = "ok"
    /\ \E k \in DOMAIN _paths : k # db_last.path /\ _paths[k] = SECTION
    /\ _paths[db_last.path] = SHELF

\* The checks of PathMap.add that precede its mutation.
PMAddRejected == {"KeyError", "ValueError", "TypeError"}

\* C27: an add to a namespace raises the consistency error exactly when the
\* two counts differ right after the mutation: _add_path raises ValueError
\* iff the number of in-memory paths differs from the number of persisted
\* entries, and PathMap.add that has passed its argument checks raises
\* PathMapConsistencyError iff the number of keys differs from the number of
\* descriptors; with equal counts the add returns normally.
C27_AddDetectsCountMismatch ==
    /\ db_last.op = "_add_path" =>
          /\ db_last.outcome \in {"ok", "ValueError"}
          /\ db_last.outcome = "ValueError" <=>
                Cardinality(DOMAIN _paths) # Cardinality(DOMAIN paths_shelf)
    /\ (pm_last.op = "add" /\ pm_last.outcome \notin PMAddRejected) =>
          /\ pm_last.outcome \in {"ok", "PathMapConsistencyError"}
          /\ pm_last.outcome = "PathMapConsistencyError" <=>
                Cardinality(_keys_set) # Cardinality(DOMAIN _path_maps)

\* C27 witness: _add_path has raised with three paths in memory and two
\* persisted, next to a PathMap whose last add returned normally.
C27_Witness ==
    /\ db_last.op = "_add_path" /\ db_last.outcome = "ValueError"
    /\ Cardinality(DOMAIN _paths) # Cardinality(DOMAIN paths_shelf)
    /\ pm_last.op = "add" /\ pm_last.outcome = "ok"
    /\ Cardinality(_keys_set) = Cardinality(DOMAIN _path_maps)

\* C28: opening a HyllaDB loads exactly the persisted path table (an empty
\* table gives an empty namespace, and opening changes nothing persisted);
\* every path that a successful build_section or build_shelf registers is
\* persisted with the kind it has in memory; and neither a build nor an
\* open drops or changes an entry that was persisted before it. So a path
\* registered by a successful build is there, with its kind, after reopening.
C28_ReopenLoadsPersisted ==
    [][ /\ (db_last'.op = "__init__") =>
              /\ paths_shelf' = paths_shelf
              /\ _paths' = paths_shelf
              /\ (DOMAIN paths_shelf = {}) => (DOMAIN _paths' = {})
        /\ (db_last'.op \in {"build_section", "build_shelf"}
                /\ db_last'.outcome = "ok") =>
              /\ DOMAIN _paths' # DOMAIN _paths
              /\ \A k \in DOMAIN _paths' \ DOMAIN _paths :
                     k \in DOMAIN paths_shelf' /\ paths_shelf'[k] = _paths'[k]
        /\ (db_last'.op \in {"build_section", "build_shelf", "__init__"}) =>
              \A k \in DOMAIN paths_shelf :
                  k \in DOMAIN paths_shelf' /\ paths_shelf'[k] = paths_shelf[k]
      ]_vars

\* C28 witness: a library reopened with the section a.c, which only
\* build_section registers, and a shelf in its namespace.
C28_Witness ==
    /\ db_last.op = "__init__"
    /\ <<"a", ".", "c">> \in DOMAIN _paths
    /\ _paths[<<"a", ".", "c">>] = SECTION
    /\ \E k \in DOMAIN _paths : _paths[k] = SHELF
    /\ _paths = paths_shelf

(***************************************************************************)
(* HyQL: strings and the calls whose results are examined                  *)
(***************************************************************************)

\* The longest string given as a path, a name or an operand.
MaxLen == 3

\* One character of [A-Za-z0-9], the two separators of path_pattern, and a
\* character outside the pattern's classes (the line feed).
Chars == {"a", ".", "_", "\n"}

\* All strings over Chars of length 0..MaxLen.
Strings == UNION {[1..n -> Chars] : n \in 0..MaxLen}

\* A call that has not run yet, and its completion with a result.
HQCall(fn, arg) == [stage |-> "in", fn |-> fn, arg |-> arg]

HQReturn(result) ==
    /\ hq' = [stage |-> "out", fn |-> hq.fn, arg |-> hq.arg, result |-> result]
    /\ UNCHANGED <<pmVars, plVars, dbVars>>

HQPending(fn) == hq.stage = "in" /\ hq.fn = fn
HQDone(fn) == hq.stage = "out" /\ hq.fn = fn

HQIdle == hq = [stage |-> "idle"]

(***************************************************************************)
(* HyQL: build_section and build_shelf on paths and names of any content   *)
(***************************************************************************)

\* Query instances (valid by construction) and dictionaries with any
\* strings as path and name.
HQBuildQueries(cls) ==
    { h \in [cls : {cls}, path : Strings, name : Strings, has_schema : {TRUE}] :
        BuildSectionModel(h) }
HQDictQueries == [cls : {"dict"}, path : Strings, name : Strings, has_schema : BOOLEAN]

HQBuildSectionCalls ==
    {HQCall("build_section", h) : h \in HQBuildQueries("BuildSection") \cup HQDictQueries}
HQBuildShelfCalls ==
    {HQCall("build_shelf", h) : h \in HQBuildQueries("BuildShelf")}

\* build_section / build_shelf on a library with no registered path
HQBuildSection ==
    /\ HQPending("build_section")
    /\ HQReturn(HyllaDB_build_section(EmptyDict, EmptyDict, hq.arg))

HQBuildShelf ==
    /\ HQPending("build_shelf")
    /\ HQReturn(HyllaDB_build_shelf(EmptyDict, EmptyDict, hq.arg))

\* C13: every path key that build_section or build_shelf stores matches
\* the path grammar and has only characters of [A-Za-z0-9._]; a valid path
\* joined by '.' to a valid name is a valid path.
C13_StoredPathsMatchGrammar ==
    (HQDone("build_section") \/ HQDone("build_shelf")) =>
        /\ \A k \in DOMAIN hq.result.paths :
              /\ MatchesPathPattern(k)
              /\ \A i \in 1..Len(k) : k[i] \in AlNum \cup {".", "_"}
        /\ (MatchesPathPattern(hq.arg.path) /\ MatchesNamePattern(hq.arg.name)) =>
              MatchesPathPattern(hq.arg.path \o <<".">> \o hq.arg.name)

\* C13 witness: build_section, given a dictionary, has stored the join of
\* a path and a name that both hold a separator.
C13_Witness ==
    /\ HQDone("build_section") /\ hq.arg.cls = "dict" /\ hq.result.outcome = "ok"
    /\ hq.arg.path = <<"a", ".", "a">> /\ hq.arg.name = <<"a", "_", "a">>
    /\ DOMAIN hq.result.paths = {<<"a", ".", "a", ".", "a", "_", "a">>}

(***************************************************************************)
(* HyQL: validate_group_format                                             *)
(***************************************************************************)

\* The longest group or filters list.
MaxGroupLen == 4

\* The result of a validator or constructor: "ok" with the returned value,
\* or the error raised.
HQResult(outcome, ret) == [outcome |-> outcome, ret |-> ret]

\* The items of a group list: a ConditionDict, a Group, the strings 'AND',
\* 'OR' and another string, and an object of another type.
GroupItems ==
    { [cls |-> "ConditionDict", val |-> ""], [cls |-> "Group", val |-> ""],
      [cls |-> "str", val |-> "AND"], [cls |-> "str", val |-> "OR"],
      [cls |-> "str", val |-> "invalid"], [cls |-> "dict", val |-> ""] }

\* The values given as a group: lists of items, a string, None.
GroupLists ==
    { [cls |-> "list", items |-> l] :
        l \in UNION {[1..n -> GroupItems] : n \in 0..MaxGroupLen} }
GroupValues ==
    GroupLists \cup {[cls |-> "str", items |-> <<>>], [cls |-> "NoneType", items |-> <<>>]}

\* class_types as passed by the query models
GroupClassTypes == {"ConditionDict", "Group"}

\* _validate_logical_operator without the test for the ends of the list.
_validate_logical_operator_NoEnds(item, index, value) ==
    item.val \notin {"AND", "OR"}

\* _validate_logical_operator: TRUE when it raises (index counts from 0).
_validate_logical_operator(item, index, value) ==
    \/ item.val \notin {"AND", "OR"}
    \/ index = 0 \/ index = Len(value) - 1

\* _validate_item_type: TRUE when it raises.
_validate_item_type(item, class_types) == item.cls \notin class_types

\* _validate_consecutive_types: TRUE when it raises.
_validate_consecutive_types(index, value, previous_value) ==
    index > 0 /\ ((value.cls = "str") = (previous_value.cls = "str"))

\* value[i] of Python for a list of n > 0 items, i in -1..n-1
PyIndex(value, i) == IF i < 0 THEN value[Len(value) + i + 1] ELSE value[i + 1]

\* validate_group_format
validate_group_format(value, class_types) ==
    IF value.cls # "list" THEN HQResult("ValueError", <<>>)
    ELSE IF Len(value.items) = 0 THEN HQResult("ValueError", <<>>)
    ELSE IF \E i \in 0..(Len(value.items) - 1) :
                LET item == PyIndex(value.items, i)
                IN  \/ IF item.cls = "str"
                       THEN _validate_logical_operator(item, i, value.items)
                       ELSE _validate_item_type(item, class_types)
                    \/ _validate_consecutive_types(i, item, PyIndex(value.items, i - 1))
         THEN HQResult("ValueError", <<>>)
    ELSE HQResult("ok", value)

HQValidateGroupFormatCalls == {HQCall("validate_group_format", v) : v \in GroupValues}

HQValidateGroupFormat ==
    /\ HQPending("validate_group_format")
    /\ HQReturn(validate_group_format(hq.arg, GroupClassTypes))

\* A logical token, and an item that is a condition or a group.
IsLogicalToken(item) == item.cls = "str" /\ item.val \in {"AND", "OR"}
IsOperand(item) == item.cls \in {"ConditionDict", "Group"}

\* C14: validate_group_format accepts a list exactly when it is not empty,
\* every item is a ConditionDict, a Group or an 'AND'/'OR' token, its first
\* and last items are not tokens, and tokens and non-tokens alternate; an
\* accepted list is returned as it was given.
C14_GroupFormat ==
    HQDone("validate_group_format") =>
        LET l == hq.arg.items
            n == Len(l)
        IN  /\ (hq.result.outcome = "ok") <=>
                  /\ hq.arg.cls = "list" /\ n > 0
                  /\ \A i \in 1..n : IsLogicalToken(l[i]) \/ IsOperand(l[i])
                  /\ IsOperand(l[1]) /\ IsOperand(l[n])
                  /\ \A i \in 1..(n - 1) : IsLogicalToken(l[i]) # IsLogicalToken(l[i + 1])
            /\ hq.result.outcome = "ok" => hq.result.ret = hq.arg
            /\ hq.result.outcome \in {"ok", "ValueError"}

\* C14 witness: a list of a condition, 'OR' and a group has been accepted.
C14_Witness ==
    /\ HQDone("validate_group_format") /\ hq.result.outcome = "ok"
    /\ Len(hq.arg.items) = 3
    /\ hq.arg.items[1].cls = "ConditionDict" /\ hq.arg.items[2].val = "OR"
    /\ hq.arg.items[3].cls = "Group"

(***************************************************************************)
(* HyQL: the operator taxonomy                                             *)
(***************************************************************************)

\* The members of Operators, with the commented-out bitwise operators.
Operators_WithBitwise ==
    { "==", "!=", ">", "<", ">=", "<=",
      "contains", "starts_with", "ends_with", "matches",
      "in", "not in", "any", "all", "none", "length_eq", "length_gt", "length_lt",
      "and", "or", "not",
      "is", "is not", "isinstance",
      "&", "|", "^", "~",
      "abs_eq", "abs_gt", "abs_lt",
      "date_eq", "date_before", "date_after", "date_within" }

\* The values of the members of the enum Operators
Operators ==
    { "==", "!=", ">", "<", ">=", "<=",
      "contains", "starts_with", "ends_with", "matches",
      "in", "not in", "any", "all", "none", "length_eq", "length_gt", "length_lt",
      "and", "or", "not",
      "is", "is not", "isinstance",
      "abs_eq", "abs_gt", "abs_lt",
      "date_eq", "date_before", "date_after", "date_within" }

\* Operators.is_valid_operator
is_valid_operator(value) == \E op \in Operators : value = op

\* hyql_utilities.operator_validator
operator_validator(value) ==
    IF ~is_valid_operator(value) THEN HQResult("ValueError", <<>>)
    ELSE HQResult("ok", value)

\* validators.validate_operator: operator_validator has raised, or has
\* returned the operator, which is then tested for truth.
validate_operator(value) ==
    LET r == operator_validator(value)
    IN  IF r.outcome # "ok" THEN r
        ELSE IF r.ret = "" THEN HQResult("ValueError", <<>>)
        ELSE HQResult("ok", value)

\* The strings given as an operator: the members, and strings that are
\* close to one.
OperatorTokens ==
    Operators \cup
    { "is_not", "not_in", "isnot", "", "=", "&", "|", "^", "~", "AND", "OR", "IS",
      " ==", "== ", "<>", "equals", "length", "date", "abs", "starts with" }

HQValidateOperatorCalls == {HQCall("validate_operator", [value |-> t]) : t \in OperatorTokens}

HQValidateOperator ==
    /\ HQPending("validate_operator")
    /\ HQReturn(validate_operator(hq.arg.value))

\* C16 as stated: the valid operators are the listed tokens, with the
\* identity operator written is_not; validate_operator returns a valid
\* token and raises on any other.
C16_OperatorTaxonomyAsStated ==
    HQDone("validate_operator") =>
        LET stated == { "==", "!=", ">", "<", ">=", "<=",
                        "contains", "starts_with", "ends_with", "matches",
                        "in", "not in", "any", "all", "none",
                        "length_eq", "length_gt", "length_lt",
                        "and", "or", "not",
                        "is", "is_not", "isinstance",
                        "abs_eq", "abs_gt", "abs_lt",
                        "date_eq", "date_before", "date_after", "date_within" }
        IN  /\ is_valid_operator(hq.arg.value) <=> hq.arg.value \in stated
            /\ hq.arg.value \in stated => hq.result = HQResult("ok", hq.arg.value)
            /\ hq.arg.value \notin stated => hq.result.outcome = "ValueError"

\* C16: is_valid_operator is true exactly for ==, !=, >, <, >=, <=,
\* contains, starts_with, ends_with, matches, in, not in, any, all, none,
\* length_eq, length_gt, length_lt, and, or, not, is, is not, isinstance,
\* abs_eq, abs_gt, abs_lt, date_eq, date_before, date_after, date_within
\* (the negated identity operator is 'is not', with a space);
\* validate_operator returns such a token as given and raises on any other.
C16_OperatorTaxonomy ==
    HQDone("validate_operator") =>
        LET closed == { "==", "!=", ">", "<", ">=", "<=",
                        "contains", "starts_with", "ends_with", "matches",
                        "in", "not in", "any", "all", "none",
                        "length_eq", "length_gt", "length_lt",
                        "and", "or", "not",
                        "is", "is not", "isinstance",
                        "abs_eq", "abs_gt", "abs_lt",
                        "date_eq", "date_before", "date_after", "date_within" }
        IN  /\ is_valid_operator(hq.arg.value) <=> hq.arg.value \in closed
            /\ hq.arg.value \in closed => hq.result = HQResult("ok", hq.arg.value)
            /\ hq.arg.value \notin closed => hq.result.outcome = "ValueError"

\* C16 witness: validate_operator has returned 'is not'.
C16_Witness ==
    HQDone("validate_operator") /\ hq.arg.value = "is not" /\ hq.result = HQResult("ok", "is not")

(***************************************************************************)
(* HyQL: Condition                                                         *)
(***************************************************************************)

\* Python values given as an operand: a string, an integer.
StrValue(s) == [cls |-> "str", val |-> s]
IntValue == [cls |-> "int", val |-> <<>>]

\* A few operands: a path, two strings that are not paths, an integer.
OperandSamples ==
    {StrValue(<<"a", ".", "a">>), StrValue(<<"a", ".">>), StrValue(<<>>), IntValue}

\* Every string up to MaxLen, and an integer.
OperandValues == {StrValue(x) : x \in Strings} \cup {IntValue}

\* The operators given to Condition.
OperatorSamples == {">", "is not", "is_not", "invalid"}

\* The keyword arguments of Condition(...): left_path, operator, right,
\* right_is_path, and a left_is_path keyword that is not given, True or
\* False.
ConditionArgs ==
    [left_path : OperandValues, operator : OperatorSamples, right : OperandSamples,
     right_is_path : BOOLEAN, left_is_path : {"absent", "True", "False"}]
    \cup
    [left_path : OperandSamples, operator : OperatorSamples, right : OperandValues,
     right_is_path : BOOLEAN, left_is_path : {"absent", "True", "False"}]

\* A value accepted by a `str` field with path_dict's pattern.
IsPathString(v) == v.cls = "str" /\ MatchesPathPattern(v.val)

\* validators.validate_right_is_path: the right operand is a path string
\* when right_is_path is set.
validate_right_is_path(data) ==
    IF data.right_is_path /\ ~IsPathString(data.right)
    THEN HQResult("ValueError", <<>>)
    ELSE HQResult("ok", data)

\* Condition(...) whose operator field is not validated.
Condition_NoOperatorValidator(args) ==
    IF args.left_is_path # "absent" THEN HQResult("ValidationError", <<>>)
    ELSE IF ~IsPathString(args.left_path) THEN HQResult("ValidationError", <<>>)
    ELSE IF validate_right_is_path(args).outcome # "ok"
        THEN HQResult("ValidationError", <<>>)
    ELSE HQResult("ok", args)

\* Condition(...): extra keywords are forbidden, the operator goes through
\* validate_operator, left_path is a string matching path_pattern, and the
\* model validator runs on the fields once they are valid.
Condition(args) ==
    IF args.left_is_path # "absent" THEN HQResult("ValidationError", <<>>)
    ELSE IF validate_operator(args.operator).outcome # "ok"
        THEN HQResult("ValidationError", <<>>)
    ELSE IF ~IsPathString(args.left_path) THEN HQResult("ValidationError", <<>>)
    ELSE IF validate_right_is_path(args).outcome # "ok"
        THEN HQResult("ValidationError", <<>>)
    ELSE HQResult("ok", args)

HQConditionCalls == {HQCall("Condition", a) : a \in ConditionArgs}

HQCondition ==
    /\ HQPending("Condition")
    /\ HQReturn(Condition(hq.arg))

NoneValue == [cls |-> "NoneType", val |-> <<>>]

\* The paths given to the query models: two paths and a string that is not
\* one.
PathSamples ==
    {StrValue(<<"a", ".", "a">>), StrValue(<<"a", "_", "a">>), StrValue(<<"a", ".">>)}

\* The `filters` keyword: not given, or any of the group values.
FiltersAbsent == [cls |-> "absent", items |-> <<>>]
FiltersArgs == GroupValues \cup {FiltersAbsent}

\* The value a field takes when its keyword is not given and its default is
\* None (HyQLBaseModel validates defaults like given values).
FiltersValue(f) == IF f = FiltersAbsent THEN [cls |-> "NoneType", items |-> <<>>] ELSE f

\* A value of type list[ConditionDict | Group | str] | None
FiltersTypeOk(v) ==
    \/ v.cls = "NoneType"
    \/ /\ v.cls = "list"
       /\ \A i \in 1..Len(v.items) : v.items[i].cls \in {"ConditionDict", "Group", "str"}

\* sum(getattr(data, key) for key in bool_keys[i:])
RECURSIVE SumOfBools(_, _, _)
SumOfBools(data, bool_keys, i) ==
    IF i > Len(bool_keys) THEN 0
    ELSE (IF data[bool_keys[i]] THEN 1 ELSE 0) + SumOfBools(data, bool_keys, i + 1)

\* validate_only_one_bool_is_true raising as soon as one flag is set.
validate_only_one_bool_is_true_NoneAllowed(data, bool_keys) ==
    IF SumOfBools(data, bool_keys, 1) > 0 THEN HQResult("ValueError", <<>>)
    ELSE HQResult("ok", <<>>)

\* validators.validate_only_one_bool_is_true
validate_only_one_bool_is_true(data, bool_keys) ==
    IF SumOfBools(data, bool_keys, 1) > 1 THEN HQResult("ValueError", <<>>)
    ELSE HQResult("ok", <<>>)

RemoveArgs ==
    [path : PathSamples, filters : FiltersArgs,
     remove_shelf : BOOLEAN, remove_section : BOOLEAN]
ResetArgs ==
    [path : PathSamples, filters : FiltersArgs,
     reset_shelf : BOOLEAN, reset_section : BOOLEAN]

\* Remove(...): the field checks, the filters validator, then the model
\* validator.
Remove(args) ==
    IF ~IsPathString(args.path) THEN HQResult("ValidationError", <<>>)
    ELSE IF ~FiltersTypeOk(FiltersValue(args.filters))
        THEN HQResult("ValidationError", <<>>)
    ELSE IF validate_group_format(FiltersValue(args.filters), GroupClassTypes).outcome # "ok"
        THEN HQResult("ValidationError", <<>>)
    ELSE IF validate_only_one_bool_is_true(args, <<"remove_shelf", "remove_section">>).outcome # "ok"
        THEN HQResult("ValidationError", <<>>)
    ELSE HQResult("ok", args)

\* Reset(...)
Reset(args) ==
    IF ~IsPathString(args.path) THEN HQResult("ValidationError", <<>>)
    ELSE IF ~FiltersTypeOk(FiltersValue(args.filters))
        THEN HQResult("ValidationError", <<>>)
    ELSE IF validate_group_format(FiltersValue(args.filters), GroupClassTypes).outcome # "ok"
        THEN HQResult("ValidationError", <<>>)
    ELSE IF validate_only_one_bool_is_true(args, <<"reset_shelf", "reset_section">>).outcome # "ok"
        THEN HQResult("ValidationError", <<>>)
    ELSE HQResult("ok", args)

HQRemoveCalls == {HQCall("Remove", a) : a \in RemoveArgs}
HQResetCalls == {HQCall("Reset", a) : a \in ResetArgs}

HQRemove ==
    /\ HQPending("Remove")
    /\ HQReturn(Remove(hq.arg))

HQReset ==
    /\ HQPending("Reset")
    /\ HQReturn(Reset(hq.arg))

\* C17: the flag check of Remove (Reset) raises exactly when remove_shelf
\* and remove_section (reset_shelf and reset_section) are both true: a
\* construction with both flags true fails, and a construction whose path
\* and filters are accepted fails only then.
C17_OnlyOneFlag ==
    /\ HQDone("Remove") =>
        LET both == hq.arg.remove_shelf /\ hq.arg.remove_section
            check == validate_only_one_bool_is_true(hq.arg, <<"remove_shelf", "remove_section">>)
            fields_ok ==
                /\ IsPathString(hq.arg.path)
                /\ validate_group_format(hq.arg.filters, GroupClassTypes).outcome = "ok"
        IN  /\ (check.outcome # "ok") <=> both
            /\ both => hq.result.outcome # "ok"
            /\ fields_ok => ((hq.result.outcome # "ok") <=> both)
    /\ HQDone("Reset") =>
        LET both == hq.arg.reset_shelf /\ hq.arg.reset_section
            check == validate_only_one_bool_is_true(hq.arg, <<"reset_shelf", "reset_section">>)
            fields_ok ==
                /\ IsPathString(hq.arg.path)
                /\ validate_group_format(hq.arg.filters, GroupClassTypes).outcome = "ok"
        IN  /\ (check.outcome # "ok") <=> both
            /\ both => hq.result.outcome # "ok"
            /\ fields_ok => ((hq.result.outcome # "ok") <=> both)

\* C17 witness: a Remove with a well-formed filters list and both flags
\* true has been rejected.
C17_Witness ==
    /\ HQDone("Remove") /\ hq.result.outcome = "ValidationError"
    /\ hq.arg.remove_shelf /\ hq.arg.remove_section
    /\ IsPathString(hq.arg.path)
    /\ validate_group_format(hq.arg.filters, GroupClassTypes).outcome = "ok"

(***************************************************************************)
(* HyQL: SetSchema                                                         *)
(***************************************************************************)

\* The keyword arguments of SetSchema(...): path is None (given or by
\* default) or a string, schema_model is a subclass of SchemaModel or not.
SetSchemaArgs ==
    [path : OperandValues \cup {NoneValue}, is_schema : BOOLEAN, is_library : BOOLEAN]

\* bool(path) of Python
PathTruthy(v) == v.cls = "str" /\ Len(v.val) > 0

\* validators.ensure_path_is_none_if_is_library
ensure_path_is_none_if_is_library(data) ==
    IF data.is_library /\ PathTruthy(data.path) THEN HQResult("ValueError", <<>>)
    ELSE HQResult("ok", <<>>)

\* SetSchema(...)
SetSchema(args) ==
    IF ~(args.path = NoneValue \/ IsPathString(args.path))
        THEN HQResult("ValidationError", <<>>)
    ELSE IF ~args.is_schema THEN HQResult("ValidationError", <<>>)
    ELSE IF ensure_path_is_none_if_is_library(args).outcome # "ok"
        THEN HQResult("ValidationError", <<>>)
    ELSE HQResult("ok", args)

HQSetSchemaCalls == {HQCall("SetSchema", a) : a \in SetSchemaArgs}

HQSetSchema ==
    /\ HQPending("SetSchema")
    /\ HQReturn(SetSchema(hq.arg))

\* C18: a SetSchema with a schema class and with no path or a well-formed
\* path is constructed exactly when it has a path and is_library is false,
\* or has no path and is_library is true.
C18_PathXorLibrary ==
    (/\ HQDone("SetSchema") /\ hq.arg.is_schema
     /\ hq.arg.path = NoneValue \/ IsPathString(hq.arg.path)) =>
        ((hq.result.outcome = "ok") <=>
            \/ hq.arg.path # NoneValue /\ ~hq.arg.is_library
            \/ hq.arg.path = NoneValue /\ hq.arg.is_library)

(***************************************************************************)
(* HyQL: validate_checkout_format and CheckOut                             *)
(***************************************************************************)

\* The longest checkout list.
MaxCheckoutLen == 3

\* re.match(path_pattern, s): '$' of Python's re also matches before a
\* line feed that ends the string.
re_match_path_pattern(s) ==
    \/ MatchesPathPattern(s)
    \/ /\ Len(s) > 0 /\ s[Len(s)] = "\n"
       /\ MatchesPathPattern(SubSeq(s, 1, Len(s) - 1))

\* "*all"
ALL == <<"*", "a", "l", "l">>

\* The strings given as items of a checkout list.
CheckoutItems ==
    {ALL, <<"a">>, <<"a", ".", "a">>, <<"a", ".">>, <<"a", "\n">>, <<>>}

CheckoutLists ==
    { [cls |-> "list", items |-> l] :
        l \in UNION {[1..n -> CheckoutItems] : n \in 0..MaxCheckoutLen} }

\* validators.validate_checkout_format
validate_checkout_format(value) ==
    IF Len(value.items) = 0 THEN HQResult("ValueError", <<>>)
    ELSE IF \E i \in 1..Len(value.items) :
                IF value.items[i] = ALL
                THEN Len(value.items) > 1
                ELSE ~re_match_path_pattern(value.items[i])
         THEN HQResult("ValueError", <<>>)
    ELSE HQResult("ok", value)

HQValidateCheckoutFormatCalls ==
    {HQCall("validate_checkout_format", v) : v \in CheckoutLists}

HQValidateCheckoutFormat ==
    /\ HQPending("validate_checkout_format")
    /\ HQReturn(validate_checkout_format(hq.arg))

\* The `checkout` keyword: not given (the default is ['*all']) or a list.
CheckoutAbsent == [cls |-> "absent", items |-> <<>>]
CheckoutValue(c) == IF c = CheckoutAbsent THEN [cls |-> "list", items |-> <<ALL>>] ELSE c

\* The keyword arguments of CheckOut(...)
CheckOutArgs ==
    [path : PathSamples \cup {NoneValue}, checkout : CheckoutLists \cup {CheckoutAbsent},
     filters : {FiltersAbsent}]
    \cup
    [path : PathSamples \cup {NoneValue}, checkout : {CheckoutAbsent},
     filters : FiltersArgs]

\* CheckOut(...): the fields are checked for their types and the pattern
\* of path; the class declares no validator.
CheckOut(args) ==
    IF ~(args.path = NoneValue \/ IsPathString(args.path))
        THEN HQResult("ValidationError", <<>>)
    ELSE IF CheckoutValue(args.checkout).cls # "list"
        THEN HQResult("ValidationError", <<>>)
    ELSE IF ~FiltersTypeOk(FiltersValue(args.filters))
        THEN HQResult("ValidationError", <<>>)
    ELSE HQResult("ok", args)

HQCheckOutCalls == {HQCall("CheckOut", a) : a \in CheckOutArgs}

HQCheckOut ==
    /\ HQPending("CheckOut")
    /\ HQReturn(CheckOut(hq.arg))

\* C19: validate_checkout_format accepts a list exactly when it is not
\* empty and is ['*all'] or holds only strings matching the path grammar;
\* a CheckOut given a list that holds '*all' and another item is rejected.
C19_CheckoutFormat ==
    /\ HQDone("validate_checkout_format") =>
        LET l == hq.arg.items
        IN  (hq.result.outcome = "ok") <=>
                /\ Len(l) > 0
                /\ \/ l = <<ALL>>
                   \/ \A i \in 1..Len(l) : MatchesPathPattern(l[i])
    /\ HQDone("CheckOut") =>
        LET l == CheckoutValue(hq.arg.checkout).items
        IN  (Len(l) > 1 /\ \E i \in 1..Len(l) : l[i] = ALL) =>
                hq.result.outcome # "ok"

(***************************************************************************)
(* HyQL: Revise, and the filters of the query models                       *)
(***************************************************************************)

\* The `data` given to a query model: a SchemaModel instance, a dict, a
\* string, None.
DataValues ==
    {[cls |-> "SchemaModel"], [cls |-> "dict"], [cls |-> "str"], [cls |-> "NoneType"]}

\* validators.validate_is_schema_model: the data is a SchemaModel instance.
validate_is_schema_model(data) ==
    IF data.cls # "SchemaModel" THEN HQResult("ValueError", <<>>)
    ELSE HQResult("ok", data)

\* The keyword arguments of Revise(...)
ReviseArgs == [path : PathSamples, data : DataValues, filters : FiltersArgs]

\* Revise(...): the class declares path and data only, and the model
\* forbids other keywords.
Revise(args) ==
    IF args.filters # FiltersAbsent THEN HQResult("ValidationError", <<>>)
    ELSE IF ~IsPathString(args.path) THEN HQResult("ValidationError", <<>>)
    ELSE IF validate_is_schema_model(args.data).outcome # "ok"
        THEN HQResult("ValidationError", <<>>)
    ELSE HQResult("ok", args)

HQReviseCalls == {HQCall("Revise", a) : a \in ReviseArgs}

HQRevise ==
    /\ HQPending("Revise")
    /\ HQReturn(Revise(hq.arg))

\* C20: the construction of a CheckOut, Revise, Remove or Reset fails when
\* it is given a filters list that is not a well-formed group sequence.
C20_MalformedFiltersRejected ==
    (/\ HQDone("CheckOut") \/ HQDone("Revise") \/ HQDone("Remove") \/ HQDone("Reset")
     /\ hq.arg.filters.cls = "list"
     /\ validate_group_format(hq.arg.filters, GroupClassTypes).outcome # "ok") =>
        hq.result.outcome # "ok"

\* C21: a Remove (Reset) given a path and remove_shelf (reset_shelf) true
\* and no filters is constructed; its filters is None and its flags are
\* the ones given.
C21_FiltersOptional ==
    /\ (/\ HQDone("Remove") /\ hq.arg.filters = FiltersAbsent
        /\ IsPathString(hq.arg.path)
        /\ hq.arg.remove_shelf /\ ~hq.arg.remove_section) =>
            /\ hq.result.outcome = "ok"
            /\ FiltersValue(hq.result.ret.filters).cls = "NoneType"
            /\ hq.result.ret.remove_shelf /\ ~hq.result.ret.remove_section
    /\ (/\ HQDone("Reset") /\ hq.arg.filters = FiltersAbsent
        /\ IsPathString(hq.arg.path)
        /\ hq.arg.reset_shelf /\ ~hq.arg.reset_section) =>
            /\ hq.result.outcome = "ok"
            /\ FiltersValue(hq.result.ret.filters).cls = "NoneType"
            /\ hq.result.ret.reset_shelf /\ ~hq.result.ret.reset_section

\* C22: a Revise given a path, data and a well-formed filters list is
\* constructed, and its filters is the list given.
C22_ReviseWithFilters ==
    (/\ HQDone("Revise") /\ IsPathString(hq.arg.path)
     /\ hq.arg.data.cls = "SchemaModel"
     /\ hq.arg.filters.cls = "list"
     /\ validate_group_format(hq.arg.filters, GroupClassTypes).outcome = "ok") =>
        /\ hq.result.outcome = "ok"
        /\ hq.result.ret.filters = hq.arg.filters

(***************************************************************************)
(* HyQL: Write and BuildShelf                                              *)
(***************************************************************************)

\* The `data` keyword is not given.
DataAbsent == [cls |-> "absent"]

\* The names given to BuildShelf: two names and a string that is not one.
NameSamples == {StrValue(<<"a">>), StrValue(<<"a", "_", "a">>), StrValue(<<"a", ".", "a">>)}

\* A value accepted by a `str` field with name_pattern.
IsNameString(v) == v.cls = "str" /\ MatchesNamePattern(v.val)

WriteArgs == [path : PathSamples, data : DataValues \cup {DataAbsent}]
BuildShelfArgs ==
    [path : PathSamples, name : NameSamples, data : DataValues \cup {DataAbsent}]

\* Write(...) without the validator of `data`.
Write_NoDataValidator(args) ==
    IF ~IsPathString(args.path) THEN HQResult("ValidationError", <<>>)
    ELSE IF args.data = DataAbsent THEN HQResult("ValidationError", <<>>)
    ELSE HQResult("ok", args)

\* Write(...): `data` is required and goes through validate_is_schema_model.
Write(args) ==
    IF ~IsPathString(args.path) THEN HQResult("ValidationError", <<>>)
    ELSE IF args.data = DataAbsent THEN HQResult("ValidationError", <<>>)
    ELSE IF validate_is_schema_model(args.data).outcome # "ok"
        THEN HQResult("ValidationError", <<>>)
    ELSE HQResult("ok", args)

\* BuildShelf(...): a plain BaseModel; `data` has the default None, which
\* is not validated, and a given value goes through
\* validate_is_schema_model.
BuildShelf(args) ==
    IF ~IsPathString(args.path) THEN HQResult("ValidationError", <<>>)
    ELSE IF ~IsNameString(args.name) THEN HQResult("ValidationError", <<>>)
    ELSE IF args.data = DataAbsent THEN HQResult("ok", args)
    ELSE IF validate_is_schema_model(args.data).outcome # "ok"
        THEN HQResult("ValidationError", <<>>)
    ELSE HQResult("ok", args)

HQWriteCalls == {HQCall("Write", a) : a \in WriteArgs}
HQBuildShelfModelCalls == {HQCall("BuildShelf", a) : a \in BuildShelfArgs}

HQWrite ==
    /\ HQPending("Write")
    /\ HQReturn(Write(hq.arg))

HQBuildShelfModel ==
    /\ HQPending("BuildShelf")
    /\ HQReturn(BuildShelf(hq.arg))

DBIdle ==
    /\ _paths = EmptyDict
    /\ paths_shelf = EmptyDict
    /\ db_last = [op |-> "__init__", path |-> <<>>, name |-> <<>>, outcome |-> "ok"]

PLIdle ==
    /\ _shelve = EmptyDict
    /\ _is_closed = FALSE
    /\ frames = <<>>
    /\ exc = <<>>
    /\ pl_last = PLCall("none", "", <<>>)
    /\ in_with = "none"

PMIdle ==
    /\ _keys_set = {}
    /\ _path_maps = EmptyDict
    /\ pm_last = NoCall
    /\ pm_added = EmptyDict
    /\ pm_trip = NoTrip

InitPathMap == PMInit /\ PLIdle /\ DBIdle /\ HQIdle
NextPathMap == PMAdd \/ PMGet \/ PMUpdate \/ PMRemove
SpecPathMap == InitPathMap /\ [][NextPathMap]_vars

InitPathsLibrary == PLInit /\ PMIdle /\ DBIdle /\ HQIdle
NextPathsLibrary ==
    \/ PLCreate \/ PLRead \/ PLUpdate \/ PLDelete \/ PLClose
    \/ PLSignalHandler \/ PLRaise \/ PLCatch
    \/ PLTransactionEnter \/ PLTransactionExit \/ PLTransactionExcept
    \/ PLEnter \/ PLExit
SpecPathsLibrary == InitPathsLibrary /\ [][NextPathsLibrary]_vars

InitHyllaDB == DBInit /\ PMIdle /\ PLIdle /\ HQIdle
NextHyllaDB == DBBuildSection \/ DBBuildShelf \/ DBAddPath \/ DBRemovePath \/ DBOpen
SpecHyllaDB == InitHyllaDB /\ [][NextHyllaDB]_vars

\* A PathMap and a HyllaDB of one process, each called in any order.
InitNamespaces == PMInit /\ DBInit /\ PLIdle /\ HQIdle
NextNamespaces == PMAdd \/ PMRemove \/ DBAddPath \/ DBRemovePath
SpecNamespaces == InitNamespaces /\ [][NextNamespaces]_vars

HQInit ==
    \/ hq \in HQBuildSectionCalls \/ hq \in HQBuildShelfCalls
    \/ hq \in HQValidateGroupFormatCalls \/ hq \in HQValidateOperatorCalls
    \/ hq \in HQConditionCalls \/ hq \in HQRemoveCalls \/ hq \in HQResetCalls
    \/ hq \in HQSetSchemaCalls \/ hq \in HQValidateCheckoutFormatCalls
    \/ hq \in HQCheckOutCalls \/ hq \in HQReviseCalls
    \/ hq \in HQWriteCalls \/ hq \in HQBuildShelfModelCalls

InitHyQL == HQInit /\ PMIdle /\ PLIdle /\ DBIdle
NextHyQL ==
    \/ HQBuildSection \/ HQBuildShelf
    \/ HQValidateGroupFormat \/ HQValidateOperator
    \/ HQCondition \/ HQRemove \/ HQReset
    \/ HQSetSchema \/ HQValidateCheckoutFormat \/ HQCheckOut
    \/ HQRevise \/ HQWrite \/ HQBuildShelfModel
SpecHyQL == InitHyQL /\ [][NextHyQL]_vars

====
